---------------------------- MODULE Spec2Model ----------------------------
(***************************************************************************)
(* HANGNIMAL: a session-based animal hangman server (src/app.py).          *)
(*                                                                         *)
(* Python strings are modelled as sequences of one-character strings, so   *)
(* that lower(), strip(), len(), isalpha() and " ".join() are computed and *)
(* not assumed.  The external services (Wikipedia summary, translation)    *)
(* answer nondeterministically.  Spec serves one request at a time, each   *)
(* handler one atomic action; SpecLookup calls the two lookups on their    *)
(* own; SpecThreads lets two server threads run a lookup step by step;     *)
(* SpecRequests separates the load and the save of a request.             *)
(***************************************************************************)
EXTENDS Integers, Sequences, FiniteSets, TLC

VARIABLES
    session,            \* Flask session: NoGame or the dict stored under "game"
    TRANSLATE_CACHE,    \* app.py:31, key -> Thai text
    WIKI_CACHE,         \* app.py:74, key -> {img, desc_en, extract_en}
    response,           \* JSON body (and status code) of the last request
    mask_call,          \* a call of mask_word on its own: arguments and result
    lookup_call,        \* a call of translate_to_th or wikipedia_summary on its
                        \* own: argument, value returned, external calls made
    threads,            \* server threads inside a lookup: where each one stands
    requests            \* requests of one session in flight: what each loaded

vars == <<session, TRANSLATE_CACHE, WIKI_CACHE, response, mask_call,
          lookup_call, threads, requests>>

---------------------------------------------------------------------------
(* Bounds of the model *)

\* rounds are played up to this stage; a clear that would pass it is not taken
MaxStage == 2
\* requests of the one session that can be in flight together (SpecRequests)
MaxInFlight == 2
\* requests sent in a run of SpecRequests
MaxRequests == 3
\* server threads that can be inside a lookup together (SpecThreads)
NumThreads == 2
\* longest word handed to mask_word in the mask_word study
MaxMaskLen == 3

---------------------------------------------------------------------------
(* Program constants, app.py:12-14 *)

START_LIFE == 8
HINT_LETTER_MAX == 2
HINT_LETTER_COST == 2

---------------------------------------------------------------------------
(* Python str primitives over sequences of characters *)

LowerCaseLetters ==
    <<"a","b","c","d","e","f","g","h","i","j","k","l","m",
      "n","o","p","q","r","s","t","u","v","w","x","y","z">>
UpperCaseLetters ==
    <<"A","B","C","D","E","F","G","H","I","J","K","L","M",
      "N","O","P","Q","R","S","T","U","V","W","X","Y","Z">>

Range(f) == {f[i] : i \in DOMAIN f}

LowerCaseSet == Range(LowerCaseLetters)
UpperCaseSet == Range(UpperCaseLetters)

\* str.isalpha() of one character
isalpha_char(c) == c \in LowerCaseSet \/ c \in UpperCaseSet

\* str.isalpha(): non-empty and every character alphabetic
isalpha(s) == Len(s) > 0 /\ \A i \in 1..Len(s) : isalpha_char(s[i])

\* str.lower() of one character
lower_char(c) ==
    IF c \in UpperCaseSet
    THEN LowerCaseLetters[CHOOSE i \in 1..26 : UpperCaseLetters[i] = c]
    ELSE c

\* str.lower()
lower(s) == [i \in 1..Len(s) |-> lower_char(s[i])]

isspace_char(c) == c = " "

RECURSIVE lstrip(_)
lstrip(s) ==
    IF s = <<>> THEN s
    ELSE IF isspace_char(Head(s)) THEN lstrip(Tail(s)) ELSE s

RECURSIVE rstrip(_)
rstrip(s) ==
    IF s = <<>> THEN s
    ELSE IF isspace_char(s[Len(s)]) THEN rstrip(SubSeq(s, 1, Len(s) - 1)) ELSE s

\* str.strip()
strip(s) == rstrip(lstrip(s))

\* the set of characters of a string
letters(s) == Range(s)

\* Python's `a or b` on strings: a when a is non-empty, else b
str_or(a, b) == IF a # <<>> THEN a ELSE b

\* " ".join(cells) for a sequence of one-character cells
RECURSIVE join_space(_)
join_space(cells) ==
    IF cells = <<>> THEN <<>>
    ELSE IF Len(cells) = 1 THEN <<cells[1]>>
    ELSE <<cells[1], " ">> \o join_space(Tail(cells))

---------------------------------------------------------------------------
(* Word bank, app.py:17-28: the lines of animals.txt, trimmed, lowercased, *)
(* kept when non-empty and alphabetic.                                     *)

animals_txt ==
    { <<"E","l","k"," ">>, <<"e","e","l">>, <<>>, <<"t","-","1">> }

ANIMALS == { lower(strip(line)) : line \in
               { l \in animals_txt : LET w == lower(strip(l))
                                     IN  w # <<>> /\ isalpha(w) } }


---------------------------------------------------------------------------
(* The external services.  A reply either fails (network error, timeout,  *)
(* malformed body: any exception in the try block) or carries a body.      *)

\* what en.wikipedia.org holds for a title, when the request succeeds
\* (the description of "elk" and the extract of "eel" are the word itself,
\* so a word and its about-text share one translation key)
WikiPage(title) ==
    IF lower(title) = <<"e","l","k">>
    THEN [thumbnail |-> <<"e",".","p"," ">>, description |-> <<"e","l","k"," ">>,
          extract |-> <<"D","e","e","r">>]
    ELSE [thumbnail |-> <<>>, description |-> <<>>,
          extract |-> <<" ","e","e","l">>]

WikiReplies(title) ==
    { [ok |-> FALSE, body |-> [thumbnail |-> <<>>, description |-> <<>>, extract |-> <<>>]],
      [ok |-> TRUE,  body |-> WikiPage(title)] }

\* a Thai rendering of an English text
Thai(text) == <<"~">> \o text

\* replies of the translate library and of MyMemory: an exception, an
\* empty translation, or a translation (with stray whitespace)
TranslateReplies(text) ==
    { [ok |-> FALSE, body |-> <<>>],
      [ok |-> TRUE,  body |-> <<" ">>],
      [ok |-> TRUE,  body |-> Thai(text) \o <<" ">>] }

---------------------------------------------------------------------------
(* dict helpers *)

EmptyDict == [k \in {} |-> <<>>]

DictSet(d, key, val) ==
    [k \in DOMAIN d \cup {key} |-> IF k = key THEN val ELSE d[k]]

---------------------------------------------------------------------------
(* translate_to_th, app.py:39-71.  An outcome is the value returned, the   *)
(* cache afterwards and the number of external calls made.                 *)

\* app.py:33-37: whether `from translate import Translator` succeeded.  With
\* the package present translate_to_th runs path A and, when A raises, path
\* B; without it, path B alone, whose outcomes are among those of A-then-B.
HAS_TRANSLATE_LIB == TRUE

\* slip: a failure of the fallback is cached as the empty translation
translate_fallback_caches_failure(text, key, cache, calls) ==
    { LET th == IF r.ok THEN strip(r.body) ELSE <<>>
      IN  [ret |-> th, cache |-> DictSet(cache, key, th), calls |-> calls + 1]
      : r \in TranslateReplies(text) }

\* app.py:59-71, the MyMemory fallback
translate_fallback(text, key, cache, calls) ==
    { IF ~r.ok
      THEN [ret |-> <<>>, cache |-> cache, calls |-> calls + 1]
      ELSE LET th == strip(r.body)
           IN  [ret |-> th,
                cache |-> IF th # <<>> THEN DictSet(cache, key, th) ELSE cache,
                calls |-> calls + 1]
      : r \in TranslateReplies(text) }

\* slip: the library is tried a second time before the fallback
translate_lib_retries(text, key, cache) ==
    UNION { IF ~r.ok
            THEN UNION { IF ~r2.ok
                         THEN translate_fallback(text, key, cache, 2)
                         ELSE LET th == strip(r2.body)
                              IN  { [ret |-> th,
                                     cache |-> IF th # <<>> THEN DictSet(cache, key, th)
                                               ELSE cache,
                                     calls |-> 2] }
                         : r2 \in TranslateReplies(text) }
            ELSE LET th == strip(r.body)
                 IN  { [ret |-> th,
                        cache |-> IF th # <<>> THEN DictSet(cache, key, th) ELSE cache,
                        calls |-> 1] }
            : r \in TranslateReplies(text) }

\* app.py:49-57, the translate library; an exception falls through to B
translate_lib(text, key, cache) ==
    UNION { IF ~r.ok
            THEN translate_fallback(text, key, cache, 1)
            ELSE LET th == strip(r.body)
                 IN  { [ret |-> th,
                        cache |-> IF th # <<>> THEN DictSet(cache, key, th) ELSE cache,
                        calls |-> 1] }
            : r \in TranslateReplies(text) }

translate_to_th(text0, cache, has_lib) ==
    LET text == strip(text0)
        key  == lower(text)
    IN  IF text = <<>>
        THEN { [ret |-> <<>>, cache |-> cache, calls |-> 0] }
        ELSE IF key \in DOMAIN cache
        THEN { [ret |-> cache[key], cache |-> cache, calls |-> 0] }
        ELSE IF has_lib
        THEN translate_lib(text, key, cache)
        ELSE translate_fallback(text, key, cache, 0)

---------------------------------------------------------------------------
(* wikipedia_summary, app.py:76-108 *)

EmptySummary == [img |-> <<>>, desc_en |-> <<>>, extract_en |-> <<>>]

\* slip: the record of a failure is returned but not cached
wikipedia_summary_retries_failure(word0, cache) ==
    LET word == strip(word0)
        key  == lower(word)
    IN  IF word = <<>>
        THEN { [ret |-> EmptySummary, cache |-> cache, calls |-> 0] }
        ELSE IF key \in DOMAIN cache
        THEN { [ret |-> cache[key], cache |-> cache, calls |-> 0] }
        ELSE { IF r.ok
               THEN LET out == [img        |-> strip(r.body.thumbnail),
                                desc_en    |-> strip(r.body.description),
                                extract_en |-> strip(r.body.extract)]
                    IN  [ret |-> out, cache |-> DictSet(cache, key, out), calls |-> 1]
               ELSE [ret |-> EmptySummary, cache |-> cache, calls |-> 1]
               : r \in WikiReplies(word) }

wikipedia_summary(word0, cache) ==
    LET word == strip(word0)
        key  == lower(word)
    IN  IF word = <<>>
        THEN { [ret |-> EmptySummary, cache |-> cache, calls |-> 0] }
        ELSE IF key \in DOMAIN cache
        THEN { [ret |-> cache[key], cache |-> cache, calls |-> 0] }
        ELSE { LET out == IF r.ok
                          THEN [img        |-> strip(r.body.thumbnail),
                                desc_en    |-> strip(r.body.description),
                                extract_en |-> strip(r.body.extract)]
                          ELSE EmptySummary
               IN  [ret |-> out, cache |-> DictSet(cache, key, out), calls |-> 1]
               : r \in WikiReplies(word) }

---------------------------------------------------------------------------
(* Game state helpers, app.py:110-172 *)

\* the unguessed-letter cell of mask_word
HiddenCell == "_"

\* slip: a guessed letter is shown at its first position only
mask_word_first_only(word, guessed) ==
    join_space([i \in 1..Len(word) |->
                   IF word[i] \in guessed /\ \A j \in 1..(i - 1) : word[j] # word[i]
                   THEN word[i] ELSE HiddenCell])

\* app.py:111-112
mask_word(word, guessed) ==
    join_space([i \in 1..Len(word) |->
                   IF word[i] \in guessed THEN word[i] ELSE HiddenCell])

\* app.py:114-115, random.choice(ANIMALS): any word of the bank
pick_word == ANIMALS

\* the f-string messages, kept as (kind, number, text, text)
Msg(kind, n, s, t) == [kind |-> kind, n |-> n, s |-> s, t |-> t]

\* app.py:117-141; an outcome is the new round and WIKI_CACHE afterwards
start_round(stage, life, wiki) ==
    UNION { { [st |-> [stage |-> stage,
                       life |-> life,
                       word |-> word,
                       img |-> o.ret.img,
                       desc_en |-> o.ret.desc_en,
                       extract_en |-> o.ret.extract_en,
                       guessed |-> {},
                       wrong |-> {},
                       hint_letters_used |-> 0,
                       status |-> "playing",
                       message |-> Msg("stage_started", stage, <<>>, <<>>),
                       last_en |-> <<>>,
                       last_th |-> <<>>,
                       last_about_en |-> <<>>,
                       last_about_th |-> <<>>],
               wiki |-> o.cache]
              : o \in wikipedia_summary(word, wiki) }
            : word \in pick_word }

\* slip: the description of the current word is shown as the about-text
public_state_shows_desc(st) ==
    [stage |-> st.stage,
     life |-> st.life,
     length |-> Len(st.word),
     masked |-> IF st.word # <<>> THEN mask_word(st.word, st.guessed) ELSE <<>>,
     wrong |-> st.wrong,
     status |-> st.status,
     message |-> st.message,
     img |-> st.img,
     hint_letters_used |-> st.hint_letters_used,
     hint_letters_max |-> HINT_LETTER_MAX,
     last_en |-> st.last_en,
     last_th |-> st.last_th,
     last_about_en |-> str_or(st.last_about_en, st.desc_en),
     last_about_th |-> st.last_about_th]

\* app.py:143-166 (st is a stored game, so every st.get finds its key)
public_state(st) ==
    [stage |-> st.stage,
     life |-> st.life,
     length |-> Len(st.word),
     masked |-> IF st.word # <<>> THEN mask_word(st.word, st.guessed) ELSE <<>>,
     wrong |-> st.wrong,
     status |-> st.status,
     message |-> st.message,
     img |-> st.img,
     hint_letters_used |-> st.hint_letters_used,
     hint_letters_max |-> HINT_LETTER_MAX,
     last_en |-> st.last_en,
     last_th |-> st.last_th,
     last_about_en |-> st.last_about_en,
     last_about_th |-> st.last_about_th]

\* the Flask session without a "game" key
NoSession == [k \in {} |-> 0]

\* app.py:168-169, session.get("game"); HasGame is `if st` on its result
HasGame(sess) == "game" \in DOMAIN sess
get_state(sess) == sess.game

\* app.py:171-172
save_state(st) == [game |-> st]

\* jsonify(...) with its status code
Reply(code, body) == [code |-> code, body |-> body]

---------------------------------------------------------------------------
(* End of round, app.py:236-271 in api_guess and, with the same            *)
(* statements, app.py:304-336 in api_hint_letter.                           *)

\* slip: the round fails only below zero
life_exhausted_strict(life) == life < 0

\* app.py:237 and 305
life_exhausted(life) == life <= 0

\* slip: the letters guessed are counted against the length of the word
word_cleared_by_count(word, guessed) == Cardinality(guessed) = Len(word)

\* app.py:249 and 317, all(c in guessed for c in word)
word_cleared(word, guessed) == \A i \in 1..Len(word) : word[i] \in guessed

\* app.py:257 and 324
next_stage(stage) == stage + 1

\* slip: the next round starts with a fresh life
next_life_reset(life) == START_LIFE

\* app.py:258 and 325, the life handed to the next round
next_life(life) == life

NoText == <<"-">>

\* app.py:238-243 (250-255, 306-311, 318-322): the reveal fields of the
\* round that ends; an outcome is the state and TRANSLATE_CACHE afterwards
capture_reveal(st, word, tcache, has_lib) ==
    LET about_en == strip(str_or(st.desc_en, str_or(st.extract_en, <<>>)))
    IN  UNION { { [st |-> [st EXCEPT !.last_en = word,
                                     !.last_th = str_or(o1.ret, NoText),
                                     !.last_about_en = str_or(about_en, NoText),
                                     !.last_about_th =
                                         IF about_en # <<>> THEN o2.ret ELSE NoText],
                   tcache |-> o2.cache]
                  : o2 \in IF about_en # <<>>
                           THEN translate_to_th(about_en, o1.cache, has_lib)
                           ELSE { [ret |-> <<>>, cache |-> o1.cache, calls |-> 0] } }
                : o1 \in translate_to_th(word, tcache, has_lib) }

\* slip: the clear is tested before the fail
end_of_round_clear_first(st, tcache, wiki, has_lib) ==
    IF word_cleared(st.word, st.guessed)
    THEN UNION { { [st |-> [n.st EXCEPT !.last_en = r.st.last_en,
                                        !.last_th = r.st.last_th,
                                        !.last_about_en = r.st.last_about_en,
                                        !.last_about_th = r.st.last_about_th,
                                        !.message = Msg("clear", 0, r.st.last_en, r.st.last_th)],
                    tcache |-> r.tcache, wiki |-> n.wiki]
                   : n \in start_round(next_stage(r.st.stage), next_life(r.st.life), wiki) }
                 : r \in capture_reveal(st, st.word, tcache, has_lib) }
    ELSE IF life_exhausted(st.life)
    THEN { [st |-> [r.st EXCEPT !.status = "failed",
                                !.message = Msg("game_over", 0, r.st.last_en, r.st.last_th)],
            tcache |-> r.tcache, wiki |-> wiki]
           : r \in capture_reveal(st, st.word, tcache, has_lib) }
    ELSE { [st |-> st, tcache |-> tcache, wiki |-> wiki] }

\* app.py:236-271: st already holds the step's guessed, wrong, life and
\* message; an outcome is the state saved and both caches afterwards
end_of_round(st, tcache, wiki, has_lib) ==
    IF life_exhausted(st.life)
    THEN { [st |-> [r.st EXCEPT !.status = "failed",
                                !.message = Msg("game_over", 0, r.st.last_en, r.st.last_th)],
            tcache |-> r.tcache, wiki |-> wiki]
           : r \in capture_reveal(st, st.word, tcache, has_lib) }
    ELSE IF word_cleared(st.word, st.guessed)
    THEN UNION { { [st |-> [n.st EXCEPT !.last_en = r.st.last_en,
                                        !.last_th = r.st.last_th,
                                        !.last_about_en = r.st.last_about_en,
                                        !.last_about_th = r.st.last_about_th,
                                        !.message = Msg("clear", 0, r.st.last_en, r.st.last_th)],
                    tcache |-> r.tcache, wiki |-> n.wiki]
                   : n \in start_round(next_stage(r.st.stage), next_life(r.st.life), wiki) }
                 : r \in capture_reveal(st, st.word, tcache, has_lib) }
    ELSE { [st |-> st, tcache |-> tcache, wiki |-> wiki] }

---------------------------------------------------------------------------
(* Request handlers.  The outcome of a request is the session, the two     *)
(* caches and the response it leaves.                                      *)

Outcome(sess, tcache, wiki, resp) ==
    [session |-> sess, tcache |-> tcache, wiki |-> wiki, response |-> resp]

\* save_state(st) followed by jsonify(public_state(st))
Saved(o) == Outcome(save_state(o.st), o.tcache, o.wiki, Reply(200, public_state(o.st)))

\* app.py:200-201 and 276-277
NoGameError == Reply(400, [error |-> "no_game"])

\* slip: the status test is left out
round_over_never(st) == FALSE

\* app.py:202 and 278
round_over(st) == st.status # "playing"

\* the "guess" field of the request body, app.py:205-206; a missing field
\* reads as the empty string.  One input of each shape: every letter of the
\* bank, upper case, padded with whitespace, empty, blank, a digit, two
\* letters.
GuessInputs ==
    { <<"e">>, <<"k">>, <<"l">>,
      <<"K">>, <<" ", "e">>, <<"E", " ">>,
      <<>>, <<" ">>, <<"1">>, <<"e", "k">> }

---------------------------------------------------------------------------
(* api_guess, app.py:197-271 *)

\* app.py:206
normalize_guess(raw) == strip(lower(raw))

\* slip: the isalpha() test is left out
guess_accepted_any_char(g) == Len(g) = 1

\* app.py:208, negated
guess_accepted(g) == Len(g) = 1 /\ isalpha(g)

\* slip: only the guessed letters are looked up
already_tried_guessed_only(g, guessed, wrong) == g[1] \in guessed

\* app.py:218
already_tried(g, guessed, wrong) == g[1] \in guessed \/ g[1] \in wrong

\* slip: the guess is compared with the first letter only
guess_hits_first(g, word) == word[1] = g[1]

\* app.py:223, `g in word` for a one-character g
guess_hits(g, word) == \E i \in 1..Len(word) : word[i] = g[1]

\* slip: the life gained is capped at the starting life
life_after_guess_capped(life, hit) ==
    IF hit THEN (IF life + 2 > START_LIFE THEN START_LIFE ELSE life + 2) ELSE life - 1

\* app.py:225 and 229
life_after_guess(life, hit) == IF hit THEN life + 2 ELSE life - 1

\* app.py:205-271 on a playing state; an outcome is the state saved and
\* both caches afterwards
guess_playing(st, raw, tcache, wiki, has_lib) ==
    LET g == normalize_guess(raw)
    IN  IF ~guess_accepted(g)
        THEN { [st |-> [st EXCEPT !.message = Msg("one_letter_only", 0, <<>>, <<>>)],
                tcache |-> tcache, wiki |-> wiki] }
        ELSE IF already_tried(g, st.guessed, st.wrong)
        THEN { [st |-> [st EXCEPT !.message = Msg("already_guessed", 0, g, <<>>)],
                tcache |-> tcache, wiki |-> wiki] }
        ELSE LET hit  == guess_hits(g, st.word)
                 life == life_after_guess(st.life, hit)
                 st1  == [st EXCEPT
                            !.guessed = IF hit THEN st.guessed \cup {g[1]} ELSE st.guessed,
                            !.wrong   = IF hit THEN st.wrong ELSE st.wrong \cup {g[1]},
                            !.life    = life,
                            !.message = Msg(IF hit THEN "correct" ELSE "wrong", life, <<>>, <<>>)]
             IN  end_of_round(st1, tcache, wiki, has_lib)

\* app.py:197-271
guess_request(sess, raw, tcache, wiki) ==
    IF ~HasGame(sess)
    THEN { Outcome(sess, tcache, wiki, NoGameError) }
    ELSE IF round_over(get_state(sess))
    THEN { Outcome(sess, tcache, wiki, Reply(200, public_state(get_state(sess)))) }
    ELSE { Saved(o) : o \in guess_playing(get_state(sess), raw, tcache, wiki,
                                          HAS_TRANSLATE_LIB) }

---------------------------------------------------------------------------
(* api_hint_letter, app.py:273-336 *)

\* slip: off by one
hint_available_off_by_one(used) == used <= HINT_LETTER_MAX

\* app.py:282, negated
hint_available(used) == used < HINT_LETTER_MAX

\* slip: the revealed letter is drawn from all letters of the word
remaining_letters_all(word, guessed) ==
    { c \in letters(word) : isalpha_char(c) }

\* app.py:289
remaining_letters(word, guessed) ==
    { c \in letters(word) : isalpha_char(c) /\ c \notin guessed }

\* app.py:281-336 on a playing state
hint_playing(st, tcache, wiki, has_lib) ==
    LET used == st.hint_letters_used
        remaining == remaining_letters(st.word, st.guessed)
    IN  IF ~hint_available(used)
        THEN { [st |-> [st EXCEPT !.message = Msg("hint_limit", 0, <<>>, <<>>)],
                tcache |-> tcache, wiki |-> wiki] }
        ELSE IF remaining = {}
        THEN { [st |-> [st EXCEPT !.message = Msg("no_letters_left", 0, <<>>, <<>>)],
                tcache |-> tcache, wiki |-> wiki] }
        ELSE UNION { end_of_round(
                        [st EXCEPT !.guessed = st.guessed \cup {reveal},
                                   !.hint_letters_used = used + 1,
                                   !.life = st.life - HINT_LETTER_COST,
                                   !.message = Msg("hint", used + 1, <<reveal>>, <<>>)],
                        tcache, wiki, has_lib)
                     : reveal \in remaining }

\* app.py:273-336
hint_request(sess, tcache, wiki) ==
    IF ~HasGame(sess)
    THEN { Outcome(sess, tcache, wiki, NoGameError) }
    ELSE IF round_over(get_state(sess))
    THEN { Outcome(sess, tcache, wiki, Reply(200, public_state(get_state(sess)))) }
    ELSE { Saved(o) : o \in hint_playing(get_state(sess), tcache, wiki,
                                         HAS_TRANSLATE_LIB) }

---------------------------------------------------------------------------
(* The other routes, app.py:179-195 *)

\* app.py:179-184
state_request(sess, tcache, wiki) ==
    IF ~HasGame(sess)
    THEN { Outcome(sess, tcache, wiki, Reply(200, [status |-> "no_game"])) }
    ELSE { Outcome(sess, tcache, wiki, Reply(200, public_state(get_state(sess)))) }

\* slip: the session is left as it is
reset_request_keeps_game(sess, tcache, wiki) ==
    { Outcome(sess, tcache, wiki, Reply(200, [ok |-> TRUE])) }

\* app.py:186-189, session.pop("game", None)
reset_request(sess, tcache, wiki) ==
    { Outcome(NoSession, tcache, wiki, Reply(200, [ok |-> TRUE])) }

\* app.py:191-195
start_request(sess, tcache, wiki) ==
    { Saved([st |-> o.st, tcache |-> tcache, wiki |-> o.wiki])
      : o \in start_round(1, START_LIFE, wiki) }

---------------------------------------------------------------------------
(* The server: one request at a time *)

\* a request is served: its outcome becomes the state.  Rounds are played
\* up to stage MaxStage.
Serve(outcomes) ==
    \E o \in outcomes :
        /\ HasGame(o.session) => get_state(o.session).stage <= MaxStage
        /\ session' = o.session
        /\ TRANSLATE_CACHE' = o.tcache
        /\ WIKI_CACHE' = o.wiki
        /\ response' = o.response
        /\ UNCHANGED <<mask_call, lookup_call, threads, requests>>

api_state == Serve(state_request(session, TRANSLATE_CACHE, WIKI_CACHE))

api_reset == Serve(reset_request(session, TRANSLATE_CACHE, WIKI_CACHE))

api_start == Serve(start_request(session, TRANSLATE_CACHE, WIKI_CACHE))

api_guess ==
    \E raw \in GuessInputs :
        Serve(guess_request(session, raw, TRANSLATE_CACHE, WIKI_CACHE))

api_hint_letter == Serve(hint_request(session, TRANSLATE_CACHE, WIKI_CACHE))

NoMaskCall == [word |-> <<>>, guessed |-> {}, called |-> FALSE, masked |-> <<>>]

\* no lookup called on its own yet
NoLookupCall(has_lib) ==
    [fn |-> "none", arg |-> <<>>, has_lib |-> has_lib, hit |-> FALSE,
     th |-> <<>>, info |-> EmptySummary, calls |-> 0]

\* no thread inside a lookup, no request in flight
NoThreads == <<>>
NoRequests == <<>>

Init ==
    /\ session = NoSession
    /\ TRANSLATE_CACHE = EmptyDict
    /\ WIKI_CACHE = EmptyDict
    /\ response = Reply(0, [ok |-> FALSE])
    /\ mask_call = NoMaskCall
    /\ lookup_call = NoLookupCall(HAS_TRANSLATE_LIB)
    /\ threads = NoThreads
    /\ requests = NoRequests

Next ==
    \/ api_state
    \/ api_reset
    \/ api_start
    \/ api_guess
    \/ api_hint_letter

Spec == Init /\ [][Next]_vars

---------------------------------------------------------------------------
(* mask_word on its own: every non-empty word of up to MaxMaskLen letters *)
(* over MaskLetters, with every set of guessed letters.                    *)

MaskLetters == {"e", "l", "x"}

RECURSIVE WordsOfLen(_)
WordsOfLen(n) ==
    IF n = 0 THEN { <<>> }
    ELSE { Append(w, c) : w \in WordsOfLen(n - 1), c \in MaskLetters }

MaskWords == UNION { WordsOfLen(n) : n \in 1..MaxMaskLen }

InitMask ==
    /\ session = NoSession
    /\ TRANSLATE_CACHE = EmptyDict
    /\ WIKI_CACHE = EmptyDict
    /\ response = Reply(0, [ok |-> FALSE])
    /\ mask_call \in { [word |-> w, guessed |-> g, called |-> FALSE, masked |-> <<>>]
                       : w \in MaskWords, g \in SUBSET MaskLetters }
    /\ lookup_call = NoLookupCall(HAS_TRANSLATE_LIB)
    /\ threads = NoThreads
    /\ requests = NoRequests

CallMask ==
    /\ ~mask_call.called
    /\ mask_call' = [mask_call EXCEPT !.called = TRUE,
                                      !.masked = mask_word(mask_call.word, mask_call.guessed)]
    /\ UNCHANGED <<session, TRANSLATE_CACHE, WIKI_CACHE, response,
                   lookup_call, threads, requests>>

NextMask == CallMask

SpecMask == InitMask /\ [][NextMask]_vars

---------------------------------------------------------------------------
(* The two lookups on their own, one call after the other, with or without *)
(* the translate package installed.                                        *)

\* arguments: the words of the bank as stored, in another case, padded
\* with whitespace, and the empty and the blank text
LookupTexts ==
    { <<"e","l","k">>, <<"E","l","k"," ">>, <<"e","e","l">>, <<" ","E","E","L">>,
      <<>>, <<" ">> }

\* the cache key of an argument, app.py:40-44 and 82-86
cache_key(text) == lower(strip(text))

InitLookup ==
    /\ session = NoSession
    /\ TRANSLATE_CACHE = EmptyDict
    /\ WIKI_CACHE = EmptyDict
    /\ response = Reply(0, [ok |-> FALSE])
    /\ mask_call = NoMaskCall
    /\ lookup_call \in { NoLookupCall(has_lib) : has_lib \in BOOLEAN }
    /\ threads = NoThreads
    /\ requests = NoRequests

call_translate_to_th ==
    \E text \in LookupTexts :
        \E o \in translate_to_th(text, TRANSLATE_CACHE, lookup_call.has_lib) :
            /\ TRANSLATE_CACHE' = o.cache
            /\ lookup_call' = [lookup_call EXCEPT
                                  !.fn = "translate_to_th", !.arg = text,
                                  !.hit = cache_key(text) \in DOMAIN TRANSLATE_CACHE,
                                  !.th = o.ret, !.info = EmptySummary,
                                  !.calls = o.calls]
            /\ UNCHANGED <<session, WIKI_CACHE, response, mask_call, threads, requests>>

call_wikipedia_summary ==
    \E word \in LookupTexts :
        \E o \in wikipedia_summary(word, WIKI_CACHE) :
            /\ WIKI_CACHE' = o.cache
            /\ lookup_call' = [lookup_call EXCEPT
                                  !.fn = "wikipedia_summary", !.arg = word,
                                  !.hit = cache_key(word) \in DOMAIN WIKI_CACHE,
                                  !.th = <<>>, !.info = o.ret,
                                  !.calls = o.calls]
            /\ UNCHANGED <<session, TRANSLATE_CACHE, response, mask_call, threads, requests>>

NextLookup == call_translate_to_th \/ call_wikipedia_summary

SpecLookup == InitLookup /\ [][NextLookup]_vars

---------------------------------------------------------------------------
(* The two lookups run by server threads, step by step: a thread that      *)
(* misses the cache waits for the external service, and other threads run  *)
(* meanwhile.  app.py takes no lock around the caches.                     *)

Threads == 1..NumThreads

\* arguments of the lookups: a word and the same word in another case
ThreadTexts == { <<"e","l","k">>, <<"E","l","k"," ">>, <<"e","e","l">> }

IdleThread == [pc |-> "idle", text |-> <<>>, key |-> <<>>]

InitThreads ==
    /\ session = NoSession
    /\ TRANSLATE_CACHE = EmptyDict
    /\ WIKI_CACHE = EmptyDict
    /\ response = Reply(0, [ok |-> FALSE])
    /\ mask_call = NoMaskCall
    /\ lookup_call = NoLookupCall(HAS_TRANSLATE_LIB)
    /\ threads = [t \in Threads |-> IdleThread]
    /\ requests = NoRequests

\* app.py:40-49: strip, empty test, cache lookup; on a miss the thread goes
\* to the translate library, or to MyMemory without it
translate_begin(t) ==
    /\ threads[t].pc = "idle"
    /\ \E text0 \in ThreadTexts :
          LET text == strip(text0)
              key  == lower(text)
          IN  threads' = [threads EXCEPT ![t] =
                            IF text = <<>> \/ key \in DOMAIN TRANSLATE_CACHE
                            THEN IdleThread
                            ELSE [pc |-> IF HAS_TRANSLATE_LIB THEN "lib" ELSE "fallback",
                                  text |-> text, key |-> key]]
    /\ UNCHANGED <<session, TRANSLATE_CACHE, WIKI_CACHE, response, mask_call,
                   lookup_call, requests>>

\* app.py:50-57: the library answers or raises
translate_lib_reply(t) ==
    /\ threads[t].pc = "lib"
    /\ \E r \in TranslateReplies(threads[t].text) :
          IF ~r.ok
          THEN /\ threads' = [threads EXCEPT ![t].pc = "fallback"]
               /\ UNCHANGED TRANSLATE_CACHE
          ELSE LET th == strip(r.body)
               IN  /\ TRANSLATE_CACHE' = IF th # <<>>
                                         THEN DictSet(TRANSLATE_CACHE, threads[t].key, th)
                                         ELSE TRANSLATE_CACHE
                   /\ threads' = [threads EXCEPT ![t] = IdleThread]
    /\ UNCHANGED <<session, WIKI_CACHE, response, mask_call, lookup_call, requests>>

\* app.py:60-71: MyMemory answers or the request fails
translate_fallback_reply(t) ==
    /\ threads[t].pc = "fallback"
    /\ \E r \in TranslateReplies(threads[t].text) :
          LET th == IF r.ok THEN strip(r.body) ELSE <<>>
          IN  TRANSLATE_CACHE' = IF th # <<>>
                                 THEN DictSet(TRANSLATE_CACHE, threads[t].key, th)
                                 ELSE TRANSLATE_CACHE
    /\ threads' = [threads EXCEPT ![t] = IdleThread]
    /\ UNCHANGED <<session, WIKI_CACHE, response, mask_call, lookup_call, requests>>

\* app.py:82-92: strip, empty test, cache lookup; on a miss the request is
\* sent
summary_begin(t) ==
    /\ threads[t].pc = "idle"
    /\ \E word0 \in ThreadTexts :
          LET word == strip(word0)
              key  == lower(word)
          IN  threads' = [threads EXCEPT ![t] =
                            IF word = <<>> \/ key \in DOMAIN WIKI_CACHE
                            THEN IdleThread
                            ELSE [pc |-> "summary", text |-> word, key |-> key]]
    /\ UNCHANGED <<session, TRANSLATE_CACHE, WIKI_CACHE, response, mask_call,
                   lookup_call, requests>>

\* app.py:94-108: Wikipedia answers or the request fails; either way the
\* record is written to the cache
summary_reply(t) ==
    /\ threads[t].pc = "summary"
    /\ \E r \in WikiReplies(threads[t].text) :
          LET out == IF r.ok
                     THEN [img        |-> strip(r.body.thumbnail),
                           desc_en    |-> strip(r.body.description),
                           extract_en |-> strip(r.body.extract)]
                     ELSE EmptySummary
          IN  WIKI_CACHE' = DictSet(WIKI_CACHE, threads[t].key, out)
    /\ threads' = [threads EXCEPT ![t] = IdleThread]
    /\ UNCHANGED <<session, TRANSLATE_CACHE, response, mask_call, lookup_call, requests>>

NextThreads ==
    \/ \E t \in Threads : translate_begin(t)
    \/ \E t \in Threads : translate_lib_reply(t)
    \/ \E t \in Threads : translate_fallback_reply(t)
    \/ \E t \in Threads : summary_begin(t)
    \/ \E t \in Threads : summary_reply(t)

SpecThreads == InitThreads /\ [][NextThreads]_vars

---------------------------------------------------------------------------
(* Requests of one session with their load and save apart.  A handler      *)
(* reads the session it was sent at get_state() and writes it at           *)
(* save_state() or session.pop(); nothing in app.py holds a second request *)
(* of the same session back in between.                                    *)

Slots == 1..MaxInFlight

\* the commands that write the session: start, guess, hint, reset
RequestCommands ==
    { [cmd |-> "start", raw |-> <<>>],
      [cmd |-> "reset", raw |-> <<>>],
      [cmd |-> "hint_letter", raw |-> <<>>] }
    \cup { [cmd |-> "guess", raw |-> raw]
           : raw \in { r \in GuessInputs : Len(r) = 1 /\ r[1] \in LowerCaseSet } }

IdleSlot ==
    [pc |-> "idle", cmd |-> "none", raw |-> <<>>, loaded |-> NoSession,
     tcache |-> EmptyDict, wiki |-> EmptyDict]

\* the route of a command, run on the session it loaded
handle(cmd, raw, sess, tcache, wiki) ==
    CASE cmd = "start"       -> start_request(sess, tcache, wiki)
      [] cmd = "reset"       -> reset_request(sess, tcache, wiki)
      [] cmd = "hint_letter" -> hint_request(sess, tcache, wiki)
      [] cmd = "guess"       -> guess_request(sess, raw, tcache, wiki)

\* whether the route writes the session: api_start and api_reset always,
\* api_guess and api_hint_letter past their two early returns
request_saves(cmd, sess) ==
    \/ cmd \in {"start", "reset"}
    \/ HasGame(sess) /\ ~round_over(get_state(sess))

InitRequests ==
    /\ session = NoSession
    /\ TRANSLATE_CACHE = EmptyDict
    /\ WIKI_CACHE = EmptyDict
    /\ response = Reply(0, [ok |-> FALSE])
    /\ mask_call = NoMaskCall
    /\ lookup_call = NoLookupCall(HAS_TRANSLATE_LIB)
    /\ threads = NoThreads
    /\ requests = [sent |-> 0, slot |-> [i \in Slots |-> IdleSlot], done |-> <<>>]

\* a request arrives and its handler reads the session, app.py:168-169
req_load(i) ==
    /\ requests.slot[i].pc = "idle"
    /\ requests.sent < MaxRequests
    /\ \E c \in RequestCommands :
          requests' = [requests EXCEPT
                         !.sent = @ + 1,
                         !.slot[i] = [pc |-> "loaded", cmd |-> c.cmd, raw |-> c.raw,
                                      loaded |-> session,
                                      tcache |-> TRANSLATE_CACHE, wiki |-> WIKI_CACHE]]
    /\ UNCHANGED <<session, TRANSLATE_CACHE, WIKI_CACHE, response, mask_call,
                   lookup_call, threads>>

\* the handler runs on what it read and writes the session, app.py:171-172
req_save(i) ==
    /\ requests.slot[i].pc = "loaded"
    /\ LET r == requests.slot[i]
       IN  \E o \in handle(r.cmd, r.raw, r.loaded, TRANSLATE_CACHE, WIKI_CACHE) :
               LET after == IF request_saves(r.cmd, r.loaded) THEN o.session ELSE session
               IN  /\ HasGame(after) => get_state(after).stage <= MaxStage
                   /\ session' = after
                   /\ TRANSLATE_CACHE' = o.tcache
                   /\ WIKI_CACHE' = o.wiki
                   /\ response' = o.response
                   /\ requests' = [requests EXCEPT
                                      !.slot[i] = IdleSlot,
                                      !.done = Append(@, [cmd |-> r.cmd, raw |-> r.raw,
                                                          loaded |-> r.loaded,
                                                          tcache |-> r.tcache,
                                                          wiki |-> r.wiki,
                                                          before |-> session,
                                                          after |-> after])]
    /\ UNCHANGED <<mask_call, lookup_call, threads>>

NextRequests ==
    \/ \E i \in Slots : req_load(i)
    \/ \E i \in Slots : req_save(i)

SpecRequests == InitRequests /\ [][NextRequests]_vars

---------------------------------------------------------------------------
(* Properties *)

Game == get_state(session)
Playing == HasGame(session) /\ Game.status = "playing"
Failed == HasGame(session) /\ Game.status = "failed"

GuessOutcomes(raw) == guess_request(session, raw, TRANSLATE_CACHE, WIKI_CACHE)
HintOutcomes == hint_request(session, TRANSLATE_CACHE, WIKI_CACHE)
StartOutcomes == start_request(session, TRANSLATE_CACHE, WIKI_CACHE)
StateOutcomes == state_request(session, TRANSLATE_CACHE, WIKI_CACHE)

\* the inputs that are one lower-case letter
LetterGuesses == { raw \in GuessInputs : Len(raw) = 1 /\ raw[1] \in LowerCaseSet }

Tried(st) == st.guessed \cup st.wrong
Uncovered(st) == letters(st.word) \ st.guessed

\* stage, life, word, guessed, wrong, hint_letters_used, status and the
\* reveal fields of a equal those of b, and so do the caches
OnlyMessageDiffers(o, st) ==
    /\ HasGame(o.session)
    /\ get_state(o.session) = [st EXCEPT !.message = get_state(o.session).message]
    /\ o.tcache = TRANSLATE_CACHE
    /\ o.wiki = WIKI_CACHE

upper_char(c) ==
    IF c \in LowerCaseSet
    THEN UpperCaseLetters[CHOOSE i \in 1..26 : LowerCaseLetters[i] = c]
    ELSE c
upper(s) == [i \in 1..Len(s) |-> upper_char(s[i])]

\* C1: in every stored game, guessed and wrong are disjoint, every letter of
\* guessed occurs in word and no letter of wrong occurs in word.
C1_SetsConsistent ==
    HasGame(session) =>
        /\ Game.guessed \cap Game.wrong = {}
        /\ Game.guessed \subseteq letters(Game.word)
        /\ Game.wrong \cap letters(Game.word) = {}

\* a hint has put a letter in guessed and a guess has put one in wrong
C1_Witness ==
    /\ HasGame(session)
    /\ Game.guessed # {}
    /\ Game.wrong # {}
    /\ Game.hint_letters_used > 0

\* C2: in every stored game, status is failed exactly when life <= 0, so a
\* playing game has life >= 1, the round created by a clear included.
C2_FailedIffNoLife ==
    HasGame(session) =>
        /\ Game.status \in {"playing", "failed"}
        /\ (Game.status = "failed") <=> (Game.life <= 0)
        /\ (Game.status = "playing") => (Game.life >= 1)

\* a round was cleared, life was carried over, and the next round failed
C2_Witness ==
    /\ Failed
    /\ Game.stage = 2
    /\ Game.life <= 0

\* C3: from a playing game, a fresh letter absent from word leaves life 1
\* lower, a fresh letter present in word leaves life 2 higher and an accepted
\* hint leaves life 2 lower, also when the step ends the round.
C3_LifeDeltas ==
    Playing =>
        /\ \A raw \in LetterGuesses :
              raw[1] \notin Tried(Game) =>
                  \A o \in GuessOutcomes(raw) :
                      get_state(o.session).life =
                          Game.life + (IF raw[1] \in letters(Game.word) THEN 2 ELSE -1)
        /\ (Game.hint_letters_used < 2 /\ Uncovered(Game) # {}) =>
              \A o \in HintOutcomes :
                  get_state(o.session).life = Game.life - 2

\* a hint taken at life 1 ended the round with life -1
C3_Witness ==
    /\ Failed
    /\ Game.life = -1
    /\ Game.hint_letters_used > 0

\* the state an outcome stores and returns is the round after a clear of old
NewRoundAfter(old, o, life) ==
    /\ HasGame(o.session)
    /\ LET new == get_state(o.session)
       IN  /\ new.stage = old.stage + 1
           /\ new.life = life
           /\ new.guessed = {}
           /\ new.wrong = {}
           /\ new.hint_letters_used = 0
           /\ new.status = "playing"
           /\ new.last_en = old.word
           /\ o.response = Reply(200, public_state(new))

\* C4 as stated: whenever a guess or a hint makes every letter of word a
\* member of guessed, the state stored and returned is a new round.
C4_ClearAlwaysNewRound ==
    Playing =>
        /\ \A raw \in LetterGuesses :
              (raw[1] \notin Tried(Game) /\ Uncovered(Game) = {raw[1]}) =>
                  \A o \in GuessOutcomes(raw) : NewRoundAfter(Game, o, Game.life + 2)
        /\ (Game.hint_letters_used < 2 /\ Cardinality(Uncovered(Game)) = 1) =>
              \A o \in HintOutcomes : NewRoundAfter(Game, o, Game.life - 2)

\* C4 amended: whenever a guess or a hint makes every letter of word a member
\* of guessed and leaves life above 0, the state stored and returned is a new
\* round: stage one higher, the life of the clearing moment, guessed and wrong
\* empty, no hint used, playing, and last_en the word just cleared.
C4_ClearWithLifeNewRound ==
    Playing =>
        /\ \A raw \in LetterGuesses :
              (raw[1] \notin Tried(Game) /\ Uncovered(Game) = {raw[1]}
                    /\ Game.life + 2 > 0) =>
                  \A o \in GuessOutcomes(raw) : NewRoundAfter(Game, o, Game.life + 2)
        /\ (Game.hint_letters_used < 2 /\ Cardinality(Uncovered(Game)) = 1
                    /\ Game.life - 2 > 0) =>
              \A o \in HintOutcomes : NewRoundAfter(Game, o, Game.life - 2)

\* a round was cleared and a different word drawn
C4_Witness ==
    /\ Playing
    /\ Game.stage = 2
    /\ Game.message.kind = "clear"
    /\ Game.last_en # <<>>
    /\ Game.last_en # Game.word
    /\ Game.life # START_LIFE

\* C5: on a failed game every guess and every hint leaves the session and the
\* caches as they are and returns the projection already returned; reading
\* the state does not change it either.
C5_FailedIsTerminal ==
    Failed =>
        /\ response = Reply(200, public_state(Game))
        /\ \A raw \in GuessInputs :
              GuessOutcomes(raw) = { Outcome(session, TRANSLATE_CACHE, WIKI_CACHE, response) }
        /\ HintOutcomes = { Outcome(session, TRANSLATE_CACHE, WIKI_CACHE, response) }
        /\ \A o \in StateOutcomes : o.session = session

\* a failed game with a hint left and letters uncovered and untried
C5_Witness ==
    /\ Failed
    /\ Game.hint_letters_used < HINT_LETTER_MAX
    /\ Uncovered(Game) # {}
    /\ \E raw \in LetterGuesses : raw[1] \notin Tried(Game)

\* C6: hint_letters_used stays within 0..2, every round starts with 0, and a
\* hint asked with 2 used changes the message only.
C6_HintLimit ==
    HasGame(session) =>
        /\ Game.hint_letters_used \in 0..2
        /\ \A o \in StartOutcomes : get_state(o.session).hint_letters_used = 0
        /\ Game.message.kind \in {"stage_started", "clear"} => Game.hint_letters_used = 0
        /\ (Playing /\ Game.hint_letters_used = 2) =>
              \A o \in HintOutcomes : OnlyMessageDiffers(o, Game)

\* a third hint was asked and refused
C6_Witness ==
    /\ Playing
    /\ Game.hint_letters_used = 2
    /\ Game.message.kind = "hint_limit"

\* C7: an accepted hint that does not end the round adds exactly one letter to
\* guessed, a letter of word not guessed before, leaves wrong as it is and
\* raises hint_letters_used by 1.
C7_HintRevealsOne ==
    (Playing /\ Game.hint_letters_used < 2) =>
        \A o \in HintOutcomes :
            LET new == get_state(o.session)
            IN  (new.status = "playing" /\ new.stage = Game.stage) =>
                    /\ \E c \in letters(Game.word) \ Game.guessed :
                          new.guessed = Game.guessed \cup {c}
                    /\ Cardinality(new.guessed) = Cardinality(Game.guessed) + 1
                    /\ new.wrong = Game.wrong
                    /\ new.hint_letters_used = Game.hint_letters_used + 1

\* a hint was accepted and the round goes on
C7_Witness ==
    /\ Playing
    /\ Game.message.kind = "hint"
    /\ Game.hint_letters_used = 1
    /\ Cardinality(Game.guessed) = 1

\* the raw input is exactly one alphabetic character
OneLetter(raw) == Len(raw) = 1 /\ raw[1] \in LowerCaseSet \cup UpperCaseSet

\* the input in upper case and in lower case has the same outcomes
CaseInsensitive(raw) == GuessOutcomes(upper(raw)) = GuessOutcomes(lower(raw))

\* C8 as stated: a guess whose input is not exactly one alphabetic character,
\* surrounding whitespace counted, changes the message only; one alphabetic
\* character is treated alike in upper and lower case.
C8_RawInputValidated ==
    Playing =>
        /\ \A raw \in GuessInputs :
              ~OneLetter(raw) =>
                  \A o \in GuessOutcomes(raw) : OnlyMessageDiffers(o, Game)
        /\ \A raw \in GuessInputs : OneLetter(raw) => CaseInsensitive(raw)

\* C8 amended: a guess whose input, with surrounding whitespace trimmed, is
\* not exactly one alphabetic character changes the message only; an input
\* that is one alphabetic character once trimmed is treated alike in upper
\* and lower case.
C8_TrimmedInputValidated ==
    Playing =>
        /\ \A raw \in GuessInputs :
              ~OneLetter(strip(raw)) =>
                  \A o \in GuessOutcomes(raw) :
                      /\ OnlyMessageDiffers(o, Game)
                      /\ get_state(o.session).message.kind = "one_letter_only"
        /\ \A raw \in GuessInputs : OneLetter(strip(raw)) => CaseInsensitive(raw)

\* an input was refused in the middle of a round
C8_Witness ==
    /\ Playing
    /\ Game.message.kind = "one_letter_only"
    /\ Game.guessed # {}
    /\ Game.wrong # {}

\* C9: guessing a letter that is already in guessed or in wrong changes the
\* message only.
C9_RepeatedGuess ==
    Playing =>
        \A raw \in LetterGuesses :
            raw[1] \in Tried(Game) =>
                \A o \in GuessOutcomes(raw) :
                    /\ OnlyMessageDiffers(o, Game)
                    /\ get_state(o.session).message.kind = "already_guessed"

\* the letter a hint revealed was guessed afterwards, with a wrong letter on
\* the board too
C9_Witness ==
    /\ Playing
    /\ Game.message.kind = "already_guessed"
    /\ Game.hint_letters_used = 1
    /\ Game.guessed = { Game.message.s[1] }
    /\ Game.wrong # {}

\* the cell of the masked output for position i of word
MaskCell(word, guessed, i) == IF word[i] \in guessed THEN word[i] ELSE "_"

\* C10 as stated: the masked output shows the letters of word that are in
\* guessed, each at its position, hides the others, and is as long as word.
C10_MaskedSameLength ==
    mask_call.called =>
        /\ Len(mask_call.masked) = Len(mask_call.word)
        /\ \A i \in 1..Len(mask_call.word) :
              mask_call.masked[i] = MaskCell(mask_call.word, mask_call.guessed, i)

\* C10 amended: the masked output has one cell for each letter of word, the
\* letter when it is in guessed and "_" when not, with one space between
\* neighbouring cells: 2 * length(word) - 1 characters.
C10_MaskedCells ==
    mask_call.called =>
        /\ Len(mask_call.masked) = 2 * Len(mask_call.word) - 1
        /\ \A i \in 1..Len(mask_call.word) :
              mask_call.masked[2 * i - 1] = MaskCell(mask_call.word, mask_call.guessed, i)
        /\ \A i \in 1..(Len(mask_call.word) - 1) : mask_call.masked[2 * i] = " "

\* a word with a repeated guessed letter and a hidden letter was masked
C10_Witness ==
    /\ mask_call.called
    /\ \E i, j \in 1..Len(mask_call.word) :
          /\ i < j
          /\ mask_call.word[i] = mask_call.word[j]
          /\ mask_call.word[i] \in mask_call.guessed
    /\ \E k \in 1..Len(mask_call.word) : mask_call.word[k] \notin mask_call.guessed

---------------------------------------------------------------------------
(* What the projection shows of a word while its round is played *)

Projection == public_state(Game)

\* what is known of the current hidden word: its summary fields and, when
\* cached, its translation
CurrentWordInfo ==
    ({Game.img, Game.desc_en, Game.extract_en}
        \cup (IF Game.word \in DOMAIN TRANSLATE_CACHE
              THEN {TRANSLATE_CACHE[Game.word]} ELSE {})) \ {<<>>}

\* the about-text of a summary record, app.py:238 and 242
AboutText(info) == str_or(strip(str_or(info.desc_en, str_or(info.extract_en, <<>>))), NoText)

\* C11 as stated: in every playing state no field of the projection carries
\* the image, the description or the translation of the current hidden word.
C11_NothingOfCurrentWordShown ==
    Playing =>
        {Projection.img, Projection.last_th, Projection.last_about_en,
         Projection.last_about_th} \cap CurrentWordInfo = {}

\* C11 amended: in every playing state the projection is what was returned;
\* its reveal fields are empty during the first round and afterwards hold
\* the word, about-text and translations captured from a round that ended;
\* its image field holds the image of the current hidden word.
C11_RevealFromEndedRoundOnly ==
    Playing =>
        /\ response = Reply(200, Projection)
        /\ Projection.img = WIKI_CACHE[Game.word].img
        /\ Game.stage = 1 =>
              /\ Projection.last_en = <<>>
              /\ Projection.last_th = <<>>
              /\ Projection.last_about_en = <<>>
              /\ Projection.last_about_th = <<>>
        /\ Game.stage > 1 =>
              /\ Projection.last_en \in ANIMALS
              /\ Projection.last_about_en = AboutText(WIKI_CACHE[Projection.last_en])
              /\ Projection.last_th \in {NoText, Thai(Projection.last_en)}
              /\ Projection.last_about_th \in
                    {NoText, <<>>, Thai(Projection.last_about_en)}

\* a first round is played on a word whose image, description and
\* translation are all known to the server
C11_Witness ==
    /\ Playing
    /\ Game.stage = 1
    /\ Game.img # <<>>
    /\ Game.desc_en # <<>>
    /\ Game.word \in DOMAIN TRANSLATE_CACHE
    /\ Game.guessed # {}

---------------------------------------------------------------------------
(* Properties of the lookups called one after the other (SpecLookup) *)

TranslateOutcomes(text) == translate_to_th(text, TRANSLATE_CACHE, lookup_call.has_lib)
SummaryOutcomes(word) == wikipedia_summary(word, WIKI_CACHE)

\* the entries of cache are entries of the cache after a call, unchanged
EntriesKept(cache, after) ==
    \A k \in DOMAIN cache : k \in DOMAIN after /\ after[k] = cache[k]

\* C12: every entry of TRANSLATE_CACHE is a non-empty result some external
\* call returned for its key; a translate_to_th call that returns the empty
\* string leaves the cache as it is, and a call for a key that is not cached
\* goes to the external service again.
C12_FailuresNotCached ==
    /\ \A k \in DOMAIN TRANSLATE_CACHE :
          /\ TRANSLATE_CACHE[k] # <<>>
          /\ \E text \in LookupTexts :
                /\ cache_key(text) = k
                /\ \E r \in TranslateReplies(strip(text)) :
                      r.ok /\ strip(r.body) = TRANSLATE_CACHE[k]
    /\ \A text \in LookupTexts :
          \A o \in TranslateOutcomes(text) :
              /\ o.ret = <<>> => o.cache = TRANSLATE_CACHE
              /\ DOMAIN o.cache \subseteq DOMAIN TRANSLATE_CACHE \cup {cache_key(text)}
              /\ (cache_key(text) # <<>> /\ cache_key(text) \notin DOMAIN TRANSLATE_CACHE) =>
                    /\ o.calls >= 1
                    /\ o.ret # <<>> => o.cache = DictSet(TRANSLATE_CACHE, cache_key(text), o.ret)
    /\ (lookup_call.fn = "translate_to_th" /\ ~lookup_call.hit /\ lookup_call.th = <<>>) =>
          cache_key(lookup_call.arg) \notin DOMAIN TRANSLATE_CACHE

\* a call for a key went to the external services, came back empty and left
\* no entry, while another key is cached
C12_Witness ==
    /\ lookup_call.fn = "translate_to_th"
    /\ ~lookup_call.hit
    /\ lookup_call.calls >= 1
    /\ lookup_call.th = <<>>
    /\ cache_key(lookup_call.arg) \notin DOMAIN TRANSLATE_CACHE
    /\ DOMAIN TRANSLATE_CACHE # {}

\* C13: once WIKI_CACHE holds a key, every wikipedia_summary call whose
\* argument case-folds to that key returns the cached record, makes no
\* external call and leaves the cache as it is; the first call for a key
\* makes one external call and caches what it returns, the all-empty record
\* of a failure included.
C13_SummaryCachedForever ==
    /\ \A word \in LookupTexts :
          LET key == cache_key(word)
          IN  /\ key \in DOMAIN WIKI_CACHE =>
                    SummaryOutcomes(word) =
                        { [ret |-> WIKI_CACHE[key], cache |-> WIKI_CACHE, calls |-> 0] }
              /\ (key # <<>> /\ key \notin DOMAIN WIKI_CACHE) =>
                    /\ [ret |-> EmptySummary,
                        cache |-> DictSet(WIKI_CACHE, key, EmptySummary),
                        calls |-> 1] \in SummaryOutcomes(word)
                    /\ \A o \in SummaryOutcomes(word) :
                          /\ o.calls = 1
                          /\ o.cache = DictSet(WIKI_CACHE, key, o.ret)
                          /\ EntriesKept(WIKI_CACHE, o.cache)
    /\ (lookup_call.fn = "wikipedia_summary" /\ cache_key(lookup_call.arg) # <<>>) =>
          /\ cache_key(lookup_call.arg) \in DOMAIN WIKI_CACHE
          /\ WIKI_CACHE[cache_key(lookup_call.arg)] = lookup_call.info
          /\ lookup_call.hit <=> lookup_call.calls = 0

\* a later call, its argument in another case than the key, got the
\* all-empty record of a failed first call back without an external call
C13_Witness ==
    /\ lookup_call.fn = "wikipedia_summary"
    /\ lookup_call.hit
    /\ lookup_call.calls = 0
    /\ lookup_call.info = EmptySummary
    /\ lookup_call.arg # cache_key(lookup_call.arg)
    /\ cache_key(lookup_call.arg) # <<>>

\* C20 as stated: a translate_to_th call makes no external call on a cache
\* hit or an empty input and exactly one on a miss.
C20_AtMostOneCall ==
    lookup_call.fn = "translate_to_th" =>
        IF cache_key(lookup_call.arg) = <<>> \/ lookup_call.hit
        THEN lookup_call.calls = 0
        ELSE lookup_call.calls = 1

\* C20 amended: a translate_to_th call makes no external call on a cache hit
\* or an empty input; on a miss it makes one call without the translate
\* package and one or two with it (the package first, MyMemory after the
\* package raised), never more than two.
C20_OneCallPerService ==
    /\ lookup_call.calls <= 2
    /\ (lookup_call.fn = "translate_to_th" /\ lookup_call.calls = 2) => lookup_call.has_lib
    /\ \A text \in LookupTexts :
          \A o \in TranslateOutcomes(text) :
              IF cache_key(text) = <<>> \/ cache_key(text) \in DOMAIN TRANSLATE_CACHE
              THEN o.calls = 0
              ELSE IF lookup_call.has_lib
              THEN o.calls \in {1, 2}
              ELSE o.calls = 1

\* the package raised and the fallback translated: two external calls
C20_Witness ==
    /\ lookup_call.fn = "translate_to_th"
    /\ lookup_call.has_lib
    /\ lookup_call.calls = 2
    /\ lookup_call.th # <<>>

---------------------------------------------------------------------------
(* Properties of requests in flight together (SpecRequests) *)

\* the sessions command c can leave when it is run, alone, on session sess
\* with the caches tcache and wiki
SessionsAfter(c, sess, tcache, wiki) ==
    { IF request_saves(c.cmd, sess) THEN o.session ELSE sess
      : o \in handle(c.cmd, c.raw, sess, tcache, wiki) }

\* the sessions commands a and b can leave when run one after the other, a
\* first, from session sess
OneAfterTheOther(a, b, sess, tcache, wiki) ==
    UNION { SessionsAfter(b, s1, tcache, wiki) : s1 \in SessionsAfter(a, sess, tcache, wiki) }

\* of two caches the one with fewer entries (entries are only added, and
\* what a lookup can return on a miss includes what it returns on a hit)
Earlier(c1, c2) == IF DOMAIN c1 \subseteq DOMAIN c2 THEN c1 ELSE c2

\* C14 as stated: the session stored after two commands of one session is
\* the result of running them one after the other, in some order, from the
\* session stored before them.
C14_NoLostUpdate ==
    Len(requests.done) >= 2 =>
        LET n  == Len(requests.done)
            a  == requests.done[n - 1]
            b  == requests.done[n]
            tc == Earlier(a.tcache, b.tcache)
            wk == Earlier(a.wiki, b.wiki)
        IN  session \in OneAfterTheOther(a, b, a.before, tc, wk)
                        \cup OneAfterTheOther(b, a, a.before, tc, wk)

---------------------------------------------------------------------------
(* Properties of the session, the end of a round and the reveal (Spec) *)

ResetOutcomes == reset_request(session, TRANSLATE_CACHE, WIKI_CACHE)

\* the request left the session and the caches as they are and answered body
\* with status code
Answered(code, body) ==
    { [session |-> session, tcache |-> TRANSLATE_CACHE, wiki |-> WIKI_CACHE,
       response |-> [code |-> code, body |-> body]] }

\* C15: without a stored game the state route answers {status: no_game},
\* guess and hint answer the no_game error with code 400, and none of them
\* nor reset stores a game; reset leaves no game whatever was stored; start
\* stores one.
C15_NoGameHandling ==
    /\ ~HasGame(session) =>
          /\ StateOutcomes = Answered(200, [status |-> "no_game"])
          /\ \A raw \in GuessInputs :
                GuessOutcomes(raw) = Answered(400, [error |-> "no_game"])
          /\ HintOutcomes = Answered(400, [error |-> "no_game"])
    /\ \A o \in ResetOutcomes :
          /\ ~HasGame(o.session)
          /\ o.response = [code |-> 200, body |-> [ok |-> TRUE]]
    /\ \A o \in StartOutcomes :
          /\ HasGame(o.session)
          /\ get_state(o.session).stage = 1
          /\ get_state(o.session).life = START_LIFE

\* a game was played and reset, and the guess that followed was rejected
C15_Witness ==
    /\ ~HasGame(session)
    /\ response = [code |-> 400, body |-> [error |-> "no_game"]]
    /\ DOMAIN TRANSLATE_CACHE # {}

\* C16: a hint that reveals the last uncovered letter and takes life to 0 or
\* below stores a failed game of the same stage and word, with the cost of
\* the hint taken from life.
C16_FailBeforeClear ==
    (/\ Playing
     /\ Game.hint_letters_used < HINT_LETTER_MAX
     /\ Cardinality(Uncovered(Game)) = 1
     /\ Game.life - 2 <= 0) =>
        \A o \in HintOutcomes :
            LET new == get_state(o.session)
            IN  /\ new.status = "failed"
                /\ new.stage = Game.stage
                /\ new.word = Game.word
                /\ new.life = Game.life - 2
                /\ new.guessed = letters(Game.word)
                /\ new.hint_letters_used = Game.hint_letters_used + 1
                /\ new.message.kind = "game_over"
                /\ new.last_en = Game.word

\* a hint completed the word and the round failed
C16_Witness ==
    /\ Failed
    /\ Uncovered(Game) = {}
    /\ Game.hint_letters_used > 0
    /\ Game.life \in {-1, 0}
    /\ response = Reply(200, public_state(Game))

\* C17: in every playing game a letter of word is not in guessed, and no
\* stored game and no response carries the "No letters left to reveal"
\* message.
C17_NeverClearedWhilePlaying ==
    /\ Playing =>
          /\ Uncovered(Game) # {}
          /\ remaining_letters(Game.word, Game.guessed) # {}
    /\ HasGame(session) => Game.message.kind # "no_letters_left"
    /\ "message" \in DOMAIN response.body =>
          response.body.message.kind # "no_letters_left"

\* a round goes on with one letter left after a hint
C17_Witness ==
    /\ Playing
    /\ Cardinality(Uncovered(Game)) = 1
    /\ Game.message.kind = "hint"
    /\ Game.hint_letters_used < HINT_LETTER_MAX

\* C18 as stated: when a round has ended, by a fail or by a clear, last_en is
\* the word of that round, last_about_en is its description, else its
\* extract, else "-", last_th and last_about_th are the translations or "-",
\* and the command has completed with the projection.
C18_RevealCaptured ==
    (HasGame(session) /\ (Failed \/ Game.message.kind = "clear")) =>
        /\ response = Reply(200, public_state(Game))
        /\ Failed => Game.last_en = Game.word
        /\ Game.last_en \in ANIMALS
        /\ Game.last_about_en = AboutText(WIKI_CACHE[Game.last_en])
        /\ Game.last_th \in {Thai(Game.last_en), NoText}
        /\ Game.last_about_th \in {Thai(Game.last_about_en), NoText}

---------------------------------------------------------------------------
(* Properties of lookups run by threads together (SpecThreads) *)

\* a step keeps every translation entry as it is and does not put the
\* all-empty record where a fetched summary record was
CacheEntriesStay ==
    /\ \A k \in DOMAIN TRANSLATE_CACHE :
          k \in DOMAIN TRANSLATE_CACHE' /\ TRANSLATE_CACHE'[k] = TRANSLATE_CACHE[k]
    /\ \A k \in DOMAIN WIKI_CACHE :
          /\ k \in DOMAIN WIKI_CACHE'
          /\ WIKI_CACHE[k] # EmptySummary => WIKI_CACHE'[k] = WIKI_CACHE[k]

\* C19 as stated: whatever the interleaving of lookups for one key, a
\* translation entry keeps its first value and a fetched summary record is
\* not overwritten by the all-empty record of a failure.
C19_EntriesNeverReplaced == [][CacheEntriesStay]_vars

=============================================================================
